---- MODULE Spec2Model ----
(***************************************************************************)
(* Model of ytmusic_downloader.py: the orchestrator loop of main(), the    *)
(* per-item job download_video() run on a ThreadPoolExecutor, the shared   *)
(* set existing_files, the console_lock and the progress counter.          *)
(*                                                                         *)
(* Text is modelled as sequences of one-character strings, so that         *)
(* sanitize_folder_name and the lower-case substring classification of     *)
(* error messages are computed as the code computes them.                  *)
(***************************************************************************)
EXTENDS Integers, Sequences, FiniteSets, TLC

VARIABLES
    playlist_urls,   \* input: the collections behind the URLs entered by the user
    ctrl_c,          \* input: the user may press Ctrl-C during this run
    idx,             \* main: position of the for loop over playlist_urls (line 174)
    mpc,             \* main: program counter
    sub,             \* main: position of the for loop over entries (line 209)
    created,         \* folder names on which mkdir has been executed (line 183)
    existing_files,  \* the shared set built at line 192
    console_lock,    \* set of threads holding console_lock (empty or a singleton)
    futures,         \* items submitted to the executor, in submission order
    jpc,             \* per item: program counter of its download_video job
    exc,             \* per item: message of the exception caught at line 132
    outcome,         \* per item: how the processing of the item ended
    completed,       \* progress counter of the collection's task (progress.advance)
    observed,        \* futures already yielded by as_completed
    interrupted,     \* KeyboardInterrupt has been raised in the main thread
    results,         \* history: per finished collection, how it ended
    called,          \* history: items for which ydl.download was invoked
    fetchOk,         \* history: items whose ydl.download returned normally
    inserted,        \* history: items whose job executed existing_files.add
    slept,           \* history: items whose job executed time.sleep(10)
    advancedFor,     \* history: per item, number of progress.advance calls made for it
    lateStart,       \* history: items whose job was started after the interrupt
    checked,         \* history: items whose job executed the test of line 102
    printed,         \* history: per item, number of console.print calls made for it
    san_in,          \* sanitizer run: the name passed to sanitize_folder_name
    san_out,         \* sanitizer run: the result of the first application
    san_twice,       \* sanitizer run: the result of applying it to san_out
    san_pc           \* sanitizer run: "off", "start", "once" or "twice"

vars == <<playlist_urls, ctrl_c, idx, mpc, sub, created, existing_files, console_lock,
          futures, jpc, exc, outcome, completed, observed, interrupted,
          results, called, fetchOk, inserted, slept, advancedFor, lateStart,
          checked, printed, san_in, san_out, san_twice, san_pc>>

sanVars == <<san_in, san_out, san_twice, san_pc>>

(***************************************************************************)
(* Bounds of the model.                                                    *)
(***************************************************************************)
PoolItems == 5        \* items of the large collection (more than max_workers)
MaxPlaylists == 2     \* number of URLs entered
MaxLen == 3           \* length of the names given to the sanitizer run

(***************************************************************************)
(* Program constants.                                                      *)
(***************************************************************************)
max_workers == 4
MainThread == 0       \* thread identity of main(); job threads are 1..N

(***************************************************************************)
(* Text helpers.                                                           *)
(***************************************************************************)
UpperCs == <<"A","B","C","D","E","F","G","H","I","J","K","L","M",
             "N","O","P","Q","R","S","T","U","V","W","X","Y","Z">>
LowerCs == <<"a","b","c","d","e","f","g","h","i","j","k","l","m",
             "n","o","p","q","r","s","t","u","v","w","x","y","z">>

\* str.lower() on one character
LowerChar(c) ==
    IF \E k \in 1..Len(UpperCs) : UpperCs[k] = c
    THEN LowerCs[CHOOSE k \in 1..Len(UpperCs) : UpperCs[k] = c]
    ELSE c

\* str.lower()
Lower(s) == [k \in 1..Len(s) |-> LowerChar(s[k])]

\* the Python test  `needle in hay`  on strings
Contains(hay, needle) ==
    \E off \in 0..(Len(hay) - Len(needle)) :
        \A k \in 1..Len(needle) : hay[off + k] = needle[k]

Reserved_NoPipe == {"\\", "/", ":", "\"", "*", "?", "<", ">"}

\* the character class of the regular expression at line 46
Reserved == {"\\", "/", ":", "\"", "*", "?", "<", ">", "|"}

RECURSIVE SubRuns_FirstOnly(_, _)
SubRuns_FirstOnly(s, inRun) ==
    IF s = <<>> THEN <<>>
    ELSE IF Head(s) \in Reserved
         THEN (IF inRun THEN <<Head(s)>> ELSE <<"_">>) \o SubRuns_FirstOnly(Tail(s), ~inRun)
         ELSE <<Head(s)>> \o SubRuns_FirstOnly(Tail(s), FALSE)

RECURSIVE SubRuns(_, _)
\* re.sub(r'[...]+', '_', s): every maximal run of reserved characters
\* becomes one '_'; inRun tells that the previous character was reserved
SubRuns(s, inRun) ==
    IF s = <<>> THEN <<>>
    ELSE IF Head(s) \in Reserved
         THEN (IF inRun THEN <<>> ELSE <<"_">>) \o SubRuns(Tail(s), TRUE)
         ELSE <<Head(s)>> \o SubRuns(Tail(s), FALSE)

sanitize_folder_name(name) == SubRuns(name, FALSE)

Mp3 == <<".", "m", "p", "3">>

unknown_title == <<"u","n","k","n","o","w","n","_","t","i","t","l","e">>
UnknownPlaylist == <<"U","n","k","n","o","w","n","P","l","a","y","l","i","s","t">>

\* entry.get('title', 'unknown_title')
video_title(entry) ==
    IF "title" \in DOMAIN entry THEN entry.title ELSE unknown_title

\* lines 98-100 and 210-211: the output filename of an entry
filename(entry) == sanitize_folder_name(video_title(entry)) \o Mp3

\* does a directory entry match the pattern of glob("*.mp3")
MatchesMp3(f) ==
    /\ Len(f) >= Len(Mp3)
    /\ SubSeq(f, Len(f) - Len(Mp3) + 1, Len(f)) = Mp3

\* line 192: the set of names of the files matching *.mp3
ScanDir(files) == {f \in files : MatchesMp3(f)}

(***************************************************************************)
(* Error classification of download_video (lines 133-139).                 *)
(***************************************************************************)
NotAvailable == <<"c","o","n","t","e","n","t"," ","i","s","n","'","t"," ",
                  "a","v","a","i","l","a","b","l","e">>
TryAgainLater == <<"t","r","y"," ","a","g","a","i","n"," ","l","a","t","e","r">>

\* the condition of lines 135 and 139 on  err = str(e).lower()
IsTransientLowered(err) == Contains(err, NotAvailable) \/ Contains(err, TryAgainLater)

IsTransient_NoLower(msg) == IsTransientLowered(msg)

\* lines 133, 135, 139
IsTransient(msg) == IsTransientLowered(Lower(msg))

(***************************************************************************)
(* The environment: the retrieval backend and the collections behind the   *)
(* URLs.  An entry is the dict yt-dlp returns for one item; the keys       *)
(* 'title' and 'url' may be missing.                                       *)
(***************************************************************************)
MsgLater == <<"T","r","y"," ","A","g","a","i","n"," ","L","a","t","e","r">>
MsgFull == <<"d","i","s","k"," ","f","u","l","l">>
MsgBadUrl == <<"b","a","d"," ","u","r","l">>
MsgKeyError == <<"'","u","r","l","'">>

\* what  ydl.download([url])  does for a given url: return or raise
Backend(url) ==
    CASE url = "later" -> [ok |-> FALSE, msg |-> MsgLater]
      [] url = "full"  -> [ok |-> FALSE, msg |-> MsgFull]
      [] url = ""      -> [ok |-> FALSE, msg |-> MsgBadUrl]
      [] OTHER         -> [ok |-> TRUE]

Letters == <<"a","b","c","d","e","f","g","h","i","j">>

\* what get_playlist_info, mkdir and glob do for one URL
Collection(resolve, title, mkdir, scan, files, entries) ==
    [resolve |-> resolve, title |-> title, mkdir |-> mkdir, scan |-> scan,
     files |-> files, entries |-> entries]

\* one collection with more items than workers, all downloadable
PoolCollection ==
    Collection("ok", <<"p">>, "ok", "ok", {},
               [i \in 1..PoolItems |-> [title |-> <<Letters[i]>>, url |-> "ok"]])

CBad == Collection("error", <<>>, "ok", "ok", {}, <<>>)
CEmpty == Collection("ok", <<"e","/","e">>, "ok", "ok", {}, <<>>)
CNoDir == Collection("ok", <<"n">>, "error", "ok", {}, <<[title |-> <<"a">>, url |-> "ok"]>>)
CNoScan == Collection("ok", <<"s">>, "ok", "error", {}, <<[title |-> <<"a">>, url |-> "ok"]>>)
CMixed ==
    Collection("ok", <<"m">>, "ok", "ok", {<<"a">> \o Mp3, <<"b",".","t","x","t">>},
               << [title |-> <<"a">>, url |-> "ok"],
                  [title |-> <<"b">>, url |-> "later"],
                  [url |-> "full"] >>)
CCollide ==
    Collection("ok", <<"c">>, "ok", "ok", {},
               << [title |-> <<"x","/","y">>, url |-> "ok"],
                  [title |-> <<"x",":","y">>, url |-> "ok"] >>)
CFaulty ==
    Collection("ok", <<"f">>, "ok", "ok", {},
               << [title |-> <<"c">>],
                  [title |-> <<"d">>, url |-> ""],
                  [title |-> <<"h">>, url |-> "ok"] >>)

Catalog == {CBad, CEmpty, CNoDir, CNoScan, CMixed, CCollide, CFaulty}

RECURSIVE SeqsOf(_, _)
\* the sequences of n different elements of the set S: every URL is its own
\* collection with its own destination directory
SeqsOf(S, n) ==
    IF n = 0 THEN {<<>>}
    ELSE UNION {{Append(q, x) : x \in S \ {q[k] : k \in 1..Len(q)}} :
                   q \in SeqsOf(S, n - 1)}

\* the runs: what the user enters and whether Ctrl-C may be pressed
Inputs ==
    {[urls |-> <<PoolCollection>>, ctrl_c |-> FALSE]} \cup
    {[urls |-> q, ctrl_c |-> TRUE] :
        q \in UNION {SeqsOf(Catalog, n) : n \in 1..MaxPlaylists}}

(***************************************************************************)
(* Derived values of the current collection.                               *)
(***************************************************************************)
info == playlist_urls[idx]
entries == info.entries
Items == 1..Len(entries)

\* info.get('title', 'UnknownPlaylist')
playlist_title == IF "title" \in DOMAIN info THEN info.title ELSE UnknownPlaylist

Submitted == {futures[k] : k \in 1..Len(futures)}
Jobs == DOMAIN jpc
\* the jobs a worker thread is executing
Running == {j \in Jobs : jpc[j] \notin {"unsubmitted", "queued", "done"}}
\* the jobs inside ydl.download (line 127)
InFlight == {j \in Jobs : jpc[j] = "l127"}

Init ==
    /\ \E run \in Inputs : playlist_urls = run.urls /\ ctrl_c = run.ctrl_c
    /\ idx = 1
    /\ mpc = "l179"
    /\ sub = 1
    /\ created = {}
    /\ existing_files = {}
    /\ console_lock = {}
    /\ futures = <<>>
    /\ jpc = <<>>
    /\ exc = <<>>
    /\ outcome = <<>>
    /\ completed = 0
    /\ observed = {}
    /\ interrupted = FALSE
    /\ results = <<>>
    /\ called = {}
    /\ fetchOk = {}
    /\ inserted = {}
    /\ slept = {}
    /\ advancedFor = <<>>
    /\ lateStart = {}
    /\ checked = {}
    /\ printed = <<>>
    /\ san_in = <<>>
    /\ san_out = <<>>
    /\ san_twice = <<>>
    /\ san_pc = "off"

jobVars == <<futures, jpc, exc, outcome, observed, called, fetchOk, inserted,
             slept, advancedFor, lateStart, checked, printed>>

(***************************************************************************)
(* main(): the loop over the playlists (lines 174-228).                    *)
(***************************************************************************)
\* the pc of main after the body of the for loop at line 174 has ended
LoopNext == IF idx < Len(playlist_urls) THEN "l179" ELSE "l228"

AfterError_Abort == "l228"

\* lines 224-226: the handler falls through to the next iteration
AfterError == LoopNext

\* lines 224-226
Except ==
    /\ results' = Append(results, [status |-> "failed"])
    /\ idx' = idx + 1
    /\ mpc' = AfterError

\* lines 179-181
Resolve ==
    /\ mpc = "l179"
    /\ IF info.resolve = "error"
       THEN Except
       ELSE /\ mpc' = "l183"
            /\ UNCHANGED <<idx, results>>
    /\ UNCHANGED <<sanVars, playlist_urls, ctrl_c, sub, created, existing_files, console_lock,
                   completed, interrupted, jobVars>>

\* lines 182-190
MakeDir ==
    /\ mpc = "l183"
    /\ IF info.mkdir = "error"
       THEN Except /\ UNCHANGED created
       ELSE /\ created' = created \cup {sanitize_folder_name(playlist_title)}
            /\ IF entries = <<>>
               THEN /\ results' = Append(results, [status |-> "empty"])
                    /\ idx' = idx + 1
                    /\ mpc' = LoopNext
               ELSE /\ mpc' = "l192"
                    /\ UNCHANGED <<idx, results>>
    /\ UNCHANGED <<sanVars, playlist_urls, ctrl_c, sub, existing_files, console_lock,
                   completed, interrupted, jobVars>>

\* lines 192-208: build the index, the progress task and the executor
Scan ==
    /\ mpc = "l192"
    /\ IF info.scan = "error"
       THEN /\ Except
            /\ UNCHANGED <<sub, existing_files, completed, jobVars>>
       ELSE /\ existing_files' = ScanDir(info.files)
            /\ completed' = 0
            /\ sub' = 1
            /\ futures' = <<>>
            /\ jpc' = [j \in Items |-> "unsubmitted"]
            /\ exc' = [j \in Items |-> <<>>]
            /\ outcome' = [j \in Items |-> "none"]
            /\ advancedFor' = [j \in Items |-> 0]
            /\ observed' = {}
            /\ called' = {}
            /\ fetchOk' = {}
            /\ inserted' = {}
            /\ slept' = {}
            /\ lateStart' = {}
            /\ checked' = {}
            /\ printed' = [j \in Items |-> 0]
            /\ mpc' = "l212"
            /\ UNCHANGED <<idx, results>>
    /\ UNCHANGED <<sanVars, playlist_urls, ctrl_c, created, console_lock, interrupted>>

SubmitNext_Short == IF sub < Len(entries) - 1 THEN "l212" ELSE "l219"

\* the pc of main after one iteration of the for loop at line 209
SubmitNext == IF sub < Len(entries) THEN "l212" ELSE "l219"

InIndex_Never(f, index) == FALSE

\* the membership tests of lines 102 and 212
InIndex(f, index) == f \in index

\* lines 210-212 and 217: the pre-check, and the submission of a new item
PreCheck ==
    /\ mpc = "l212"
    /\ IF InIndex(filename(entries[sub]), existing_files)
       THEN /\ mpc' = "l213"
            /\ UNCHANGED <<sub, futures, jpc>>
       ELSE /\ futures' = Append(futures, sub)
            /\ jpc' = [jpc EXCEPT ![sub] = "queued"]
            /\ sub' = sub + 1
            /\ mpc' = SubmitNext
    /\ UNCHANGED <<sanVars, playlist_urls, ctrl_c, idx, created, existing_files, console_lock,
                   exc, outcome, completed, observed, interrupted, results,
                   called, fetchOk, inserted, slept, advancedFor, lateStart>>
    /\ UNCHANGED <<checked, printed>>

\* line 213
MainLock ==
    /\ mpc = "l213"
    /\ console_lock = {}
    /\ console_lock' = {MainThread}
    /\ mpc' = "l214"
    /\ UNCHANGED <<sanVars, playlist_urls, ctrl_c, idx, sub, created, existing_files, completed,
                   interrupted, results, jobVars>>

MainSkip_NoAdvance ==
    /\ mpc = "l214"
    /\ console_lock' = {}
    /\ outcome' = [outcome EXCEPT ![sub] = "SkippedDuplicate"]
    /\ sub' = sub + 1
    /\ mpc' = SubmitNext
    /\ UNCHANGED <<sanVars, playlist_urls, ctrl_c, idx, created, existing_files, futures, jpc,
                   exc, observed, interrupted, results, called, fetchOk,
                   inserted, slept, lateStart, completed, advancedFor>>
    /\ printed' = [printed EXCEPT ![sub] = @ + 1]
    /\ UNCHANGED <<checked>>

\* lines 214-216
MainSkip ==
    /\ mpc = "l214"
    /\ console_lock' = {}
    /\ outcome' = [outcome EXCEPT ![sub] = "SkippedDuplicate"]
    /\ completed' = completed + 1
    /\ advancedFor' = [advancedFor EXCEPT ![sub] = @ + 1]
    /\ sub' = sub + 1
    /\ mpc' = SubmitNext
    /\ UNCHANGED <<sanVars, playlist_urls, ctrl_c, idx, created, existing_files, futures, jpc,
                   exc, observed, interrupted, results, called, fetchOk,
                   inserted, slept, lateStart>>
    /\ printed' = [printed EXCEPT ![sub] = @ + 1]
    /\ UNCHANGED <<checked>>

\* lines 219-220: as_completed yields one finished future
Collect ==
    /\ mpc = "l219"
    /\ \E j \in Submitted \ observed :
          /\ jpc[j] = "done"
          /\ observed' = observed \cup {j}
          /\ advancedFor' = [advancedFor EXCEPT ![j] = @ + 1]
    /\ completed' = completed + 1
    /\ UNCHANGED <<sanVars, playlist_urls, ctrl_c, idx, mpc, sub, created, existing_files,
                   console_lock, futures, jpc, exc, outcome, interrupted,
                   results, called, fetchOk, inserted, slept, lateStart>>
    /\ UNCHANGED <<checked, printed>>

CollectEnd_NoWait ==
    /\ mpc = "l219"
    /\ mpc' = "l222"
    /\ UNCHANGED <<sanVars, playlist_urls, ctrl_c, idx, sub, created, existing_files,
                   console_lock, completed, interrupted, results, jobVars>>

\* line 219 exhausted; the with blocks of lines 207 and 194 are left
CollectEnd ==
    /\ mpc = "l219"
    /\ observed = Submitted
    /\ mpc' = "l222"
    /\ UNCHANGED <<sanVars, playlist_urls, ctrl_c, idx, sub, created, existing_files,
                   console_lock, completed, interrupted, results, jobVars>>

\* the locals of one iteration (index, task, executor, futures) are dead once
\* the iteration ends; they are cleared, together with their history
Discard ==
    /\ existing_files' = {}
    /\ completed' = 0
    /\ sub' = 1
    /\ futures' = <<>>
    /\ jpc' = <<>>
    /\ exc' = <<>>
    /\ outcome' = <<>>
    /\ advancedFor' = <<>>
    /\ observed' = {}
    /\ called' = {}
    /\ fetchOk' = {}
    /\ inserted' = {}
    /\ slept' = {}
    /\ lateStart' = {}
    /\ checked' = {}
    /\ printed' = <<>>

\* line 222; the body of the for loop of line 174 ends
Completed ==
    /\ mpc = "l222"
    /\ results' = Append(results, [status |-> "completed", completed |-> completed,
                                   total |-> Len(entries), outcomes |-> outcome,
                                   files |-> {filename(entries[j]) : j \in fetchOk}])
    /\ idx' = idx + 1
    /\ mpc' = LoopNext
    /\ Discard
    /\ UNCHANGED <<sanVars, playlist_urls, ctrl_c, created, console_lock, interrupted>>

\* line 228
Finish ==
    /\ mpc = "l228"
    /\ mpc' = "finished"
    /\ UNCHANGED <<sanVars, playlist_urls, ctrl_c, idx, sub, created, existing_files,
                   console_lock, completed, interrupted, results, jobVars>>

(***************************************************************************)
(* The executor (line 207) and download_video (lines 97-144), run by a     *)
(* worker thread for item j.                                               *)
(***************************************************************************)
WorkerFree_Unbounded == TRUE

\* ThreadPoolExecutor(max_workers): a queued job starts only on an idle worker
WorkerFree == Cardinality(Running) < max_workers

\* the work queue is first-in first-out
FirstQueued(j) ==
    \E k \in 1..Len(futures) :
        /\ futures[k] = j
        /\ jpc[j] = "queued"
        /\ \A m \in 1..(k - 1) : jpc[futures[m]] # "queued"

Start_SkipCheck(j) ==
    /\ FirstQueued(j)
    /\ WorkerFree
    /\ jpc' = [jpc EXCEPT ![j] = "l122"]
    /\ lateStart' = IF interrupted THEN lateStart \cup {j} ELSE lateStart
    /\ UNCHANGED <<sanVars, playlist_urls, ctrl_c, idx, mpc, sub, created, existing_files,
                   console_lock, futures, exc, outcome, completed, observed,
                   interrupted, results, called, fetchOk, inserted, slept,
                   advancedFor>>
    /\ UNCHANGED <<checked, printed>>

\* a worker takes the job from the queue and enters download_video (lines 98-100)
Start(j) ==
    /\ FirstQueued(j)
    /\ WorkerFree
    /\ jpc' = [jpc EXCEPT ![j] = "l102"]
    /\ lateStart' = IF interrupted THEN lateStart \cup {j} ELSE lateStart
    /\ UNCHANGED <<sanVars, playlist_urls, ctrl_c, idx, mpc, sub, created, existing_files,
                   console_lock, futures, exc, outcome, completed, observed,
                   interrupted, results, called, fetchOk, inserted, slept,
                   advancedFor>>
    /\ UNCHANGED <<checked, printed>>

\* line 102
Check(j) ==
    /\ jpc[j] = "l102"
    /\ jpc' = [jpc EXCEPT ![j] =
                  IF InIndex(filename(entries[j]), existing_files) THEN "l103" ELSE "l122"]
    /\ UNCHANGED <<sanVars, playlist_urls, ctrl_c, idx, mpc, sub, created, existing_files,
                   console_lock, futures, exc, outcome, completed, observed,
                   interrupted, results, called, fetchOk, inserted, slept,
                   advancedFor, lateStart>>
    /\ checked' = checked \cup {j}
    /\ UNCHANGED <<printed>>

\* the pc inside a  with console_lock:  block entered at pc
Inside(pc) ==
    CASE pc = "l103" -> "l104"
      [] pc = "l122" -> "l123"
      [] pc = "l128" -> "l129"
      [] pc = "l134" -> "l135"
      [] pc = "l141" -> "l142"

\* lines 103, 122, 128, 134, 141: acquire console_lock
JobLock(j) ==
    /\ jpc[j] \in {"l103", "l122", "l128", "l134", "l141"}
    /\ console_lock = {}
    /\ console_lock' = {j}
    /\ jpc' = [jpc EXCEPT ![j] = Inside(@)]
    /\ UNCHANGED <<sanVars, playlist_urls, ctrl_c, idx, mpc, sub, created, existing_files,
                   futures, exc, outcome, completed, observed, interrupted,
                   results, called, fetchOk, inserted, slept, advancedFor,
                   lateStart>>
    /\ UNCHANGED <<checked, printed>>

SkipPrint_Silent(j) ==
    /\ jpc[j] = "l104"
    /\ console_lock' = {}
    /\ outcome' = [outcome EXCEPT ![j] = "SkippedDuplicate"]
    /\ jpc' = [jpc EXCEPT ![j] = "done"]
    /\ UNCHANGED <<sanVars, playlist_urls, ctrl_c, idx, mpc, sub, created, existing_files,
                   futures, exc, completed, observed, interrupted, results,
                   called, fetchOk, inserted, slept, advancedFor, lateStart>>
    /\ UNCHANGED printed
    /\ UNCHANGED <<checked>>

\* lines 104-105
SkipPrint(j) ==
    /\ jpc[j] = "l104"
    /\ console_lock' = {}
    /\ outcome' = [outcome EXCEPT ![j] = "SkippedDuplicate"]
    /\ jpc' = [jpc EXCEPT ![j] = "done"]
    /\ UNCHANGED <<sanVars, playlist_urls, ctrl_c, idx, mpc, sub, created, existing_files,
                   futures, exc, completed, observed, interrupted, results,
                   called, fetchOk, inserted, slept, advancedFor, lateStart>>
    /\ printed' = [printed EXCEPT ![j] = @ + 1]
    /\ UNCHANGED <<checked>>

DownloadPrint_InsertFirst(j) ==
    /\ jpc[j] = "l123"
    /\ console_lock' = {}
    /\ existing_files' = existing_files \cup {filename(entries[j])}
    /\ inserted' = inserted \cup {j}
    /\ IF "url" \in DOMAIN entries[j]
       THEN /\ called' = called \cup {j}
            /\ jpc' = [jpc EXCEPT ![j] = "l127"]
            /\ UNCHANGED exc
       ELSE /\ exc' = [exc EXCEPT ![j] = MsgKeyError]
            /\ jpc' = [jpc EXCEPT ![j] = "l134"]
            /\ UNCHANGED called
    /\ UNCHANGED <<sanVars, playlist_urls, ctrl_c, idx, mpc, sub, created,
                   futures, outcome, completed, observed, interrupted, results,
                   fetchOk, slept, advancedFor, lateStart>>
    /\ printed' = [printed EXCEPT ![j] = @ + 1]
    /\ UNCHANGED <<checked>>

\* lines 123-127: print, release the lock, evaluate entry['url'] and enter
\* ydl.download; a missing key raises KeyError inside the try block
DownloadPrint(j) ==
    /\ jpc[j] = "l123"
    /\ console_lock' = {}
    /\ IF "url" \in DOMAIN entries[j]
       THEN /\ called' = called \cup {j}
            /\ jpc' = [jpc EXCEPT ![j] = "l127"]
            /\ UNCHANGED exc
       ELSE /\ exc' = [exc EXCEPT ![j] = MsgKeyError]
            /\ jpc' = [jpc EXCEPT ![j] = "l134"]
            /\ UNCHANGED called
    /\ UNCHANGED <<sanVars, playlist_urls, ctrl_c, idx, mpc, sub, created, existing_files,
                   futures, outcome, completed, observed, interrupted, results,
                   fetchOk, inserted, slept, advancedFor, lateStart>>
    /\ printed' = [printed EXCEPT ![j] = @ + 1]
    /\ UNCHANGED <<checked>>

BackendReturn_Propagate(j) ==
    /\ jpc[j] = "l127"
    /\ LET r == Backend(entries[j].url)
       IN  IF r.ok
           THEN /\ fetchOk' = fetchOk \cup {j}
                /\ jpc' = [jpc EXCEPT ![j] = "l128"]
                /\ UNCHANGED <<exc, outcome>>
           ELSE /\ exc' = [exc EXCEPT ![j] = r.msg]
                /\ outcome' = [outcome EXCEPT ![j] = "Raised"]
                /\ jpc' = [jpc EXCEPT ![j] = "done"]
                /\ UNCHANGED fetchOk
    /\ UNCHANGED <<sanVars, playlist_urls, ctrl_c, idx, mpc, sub, created, existing_files,
                   console_lock, futures, completed, observed,
                   interrupted, results, called, inserted, slept, advancedFor,
                   lateStart, checked, printed>>

\* line 127: ydl.download returns or raises
BackendReturn(j) ==
    /\ jpc[j] = "l127"
    /\ LET r == Backend(entries[j].url)
       IN  IF r.ok
           THEN /\ fetchOk' = fetchOk \cup {j}
                /\ jpc' = [jpc EXCEPT ![j] = "l128"]
                /\ UNCHANGED exc
           ELSE /\ exc' = [exc EXCEPT ![j] = r.msg]
                /\ jpc' = [jpc EXCEPT ![j] = "l134"]
                /\ UNCHANGED fetchOk
    /\ UNCHANGED <<sanVars, playlist_urls, ctrl_c, idx, mpc, sub, created, existing_files,
                   console_lock, futures, outcome, completed, observed,
                   interrupted, results, called, inserted, slept, advancedFor,
                   lateStart>>
    /\ UNCHANGED <<checked, printed>>

\* line 129
FinishedPrint(j) ==
    /\ jpc[j] = "l129"
    /\ console_lock' = {}
    /\ jpc' = [jpc EXCEPT ![j] = "l130"]
    /\ UNCHANGED <<sanVars, playlist_urls, ctrl_c, idx, mpc, sub, created, existing_files,
                   futures, exc, outcome, completed, observed, interrupted,
                   results, called, fetchOk, inserted, slept, advancedFor,
                   lateStart>>
    /\ printed' = [printed EXCEPT ![j] = @ + 1]
    /\ UNCHANGED <<checked>>

\* lines 130-131
Insert(j) ==
    /\ jpc[j] = "l130"
    /\ existing_files' = existing_files \cup {filename(entries[j])}
    /\ inserted' = inserted \cup {j}
    /\ outcome' = [outcome EXCEPT ![j] = "Success"]
    /\ jpc' = [jpc EXCEPT ![j] = "done"]
    /\ UNCHANGED <<sanVars, playlist_urls, ctrl_c, idx, mpc, sub, created, console_lock,
                   futures, exc, completed, observed, interrupted, results,
                   called, fetchOk, slept, advancedFor, lateStart>>
    /\ UNCHANGED <<checked, printed>>

ErrorPrint_Insert(j) ==
    /\ jpc[j] = "l135"
    /\ console_lock' = {}
    /\ existing_files' = existing_files \cup {filename(entries[j])}
    /\ IF IsTransient(exc[j])
       THEN /\ jpc' = [jpc EXCEPT ![j] = "l140"]
            /\ UNCHANGED outcome
       ELSE /\ outcome' = [outcome EXCEPT ![j] = "PermanentFailure"]
            /\ jpc' = [jpc EXCEPT ![j] = "done"]
    /\ UNCHANGED <<sanVars, playlist_urls, ctrl_c, idx, mpc, sub, created,
                   futures, exc, completed, observed, interrupted, results,
                   called, fetchOk, inserted, slept, advancedFor, lateStart>>
    /\ printed' = [printed EXCEPT ![j] = @ + 1]
    /\ UNCHANGED <<checked>>

ErrorPrint_KeepLock(j) ==
    /\ jpc[j] = "l135"
    /\ console_lock' = IF IsTransient(exc[j]) THEN console_lock ELSE {}
    /\ IF IsTransient(exc[j])
       THEN /\ jpc' = [jpc EXCEPT ![j] = "l140"]
            /\ UNCHANGED outcome
       ELSE /\ outcome' = [outcome EXCEPT ![j] = "PermanentFailure"]
            /\ jpc' = [jpc EXCEPT ![j] = "done"]
    /\ UNCHANGED <<sanVars, playlist_urls, ctrl_c, idx, mpc, sub, created, existing_files,
                   futures, exc, completed, observed, interrupted, results,
                   called, fetchOk, inserted, slept, advancedFor, lateStart>>
    /\ printed' = [printed EXCEPT ![j] = @ + 1]
    /\ UNCHANGED <<checked>>

\* lines 135-139 and 144
ErrorPrint(j) ==
    /\ jpc[j] = "l135"
    /\ console_lock' = {}
    /\ IF IsTransient(exc[j])
       THEN /\ jpc' = [jpc EXCEPT ![j] = "l140"]
            /\ UNCHANGED outcome
       ELSE /\ outcome' = [outcome EXCEPT ![j] = "PermanentFailure"]
            /\ jpc' = [jpc EXCEPT ![j] = "done"]
    /\ UNCHANGED <<sanVars, playlist_urls, ctrl_c, idx, mpc, sub, created, existing_files,
                   futures, exc, completed, observed, interrupted, results,
                   called, fetchOk, inserted, slept, advancedFor, lateStart>>
    /\ printed' = [printed EXCEPT ![j] = @ + 1]
    /\ UNCHANGED <<checked>>

\* line 140: time.sleep(10) elapses
Sleep(j) ==
    /\ jpc[j] = "l140"
    /\ slept' = slept \cup {j}
    /\ jpc' = [jpc EXCEPT ![j] = "l141"]
    /\ UNCHANGED <<sanVars, playlist_urls, ctrl_c, idx, mpc, sub, created, existing_files,
                   console_lock, futures, exc, outcome, completed, observed,
                   interrupted, results, called, fetchOk, inserted,
                   advancedFor, lateStart>>
    /\ UNCHANGED <<checked, printed>>

SkipVideoPrint_NoRelease(j) ==
    /\ jpc[j] = "l142"
    /\ UNCHANGED console_lock
    /\ outcome' = [outcome EXCEPT ![j] = "TransientFailure"]
    /\ jpc' = [jpc EXCEPT ![j] = "done"]
    /\ UNCHANGED <<sanVars, playlist_urls, ctrl_c, idx, mpc, sub, created, existing_files,
                   futures, exc, completed, observed, interrupted, results,
                   called, fetchOk, inserted, slept, advancedFor, lateStart>>
    /\ printed' = [printed EXCEPT ![j] = @ + 1]
    /\ UNCHANGED <<checked>>

\* lines 142-143
SkipVideoPrint(j) ==
    /\ jpc[j] = "l142"
    /\ console_lock' = {}
    /\ outcome' = [outcome EXCEPT ![j] = "TransientFailure"]
    /\ jpc' = [jpc EXCEPT ![j] = "done"]
    /\ UNCHANGED <<sanVars, playlist_urls, ctrl_c, idx, mpc, sub, created, existing_files,
                   futures, exc, completed, observed, interrupted, results,
                   called, fetchOk, inserted, slept, advancedFor, lateStart>>
    /\ printed' = [printed EXCEPT ![j] = @ + 1]
    /\ UNCHANGED <<checked>>

(***************************************************************************)
(* KeyboardInterrupt in the main thread (lines 230-235).                   *)
(***************************************************************************)
\* the pcs of main inside the  with ThreadPoolExecutor  block of line 207
InExecutor == {"l212", "l213", "l214", "l219"}

\* the exception leaves the with blocks: console_lock is released if main
\* holds it, and the executor's __exit__ is entered when the block is active
Interrupt ==
    /\ ctrl_c
    /\ ~interrupted
    /\ mpc \in {"l179", "l183", "l192", "l212", "l213", "l214", "l219", "l222", "l228"}
    /\ interrupted' = TRUE
    /\ console_lock' = console_lock \ {MainThread}
    /\ mpc' = IF mpc \in InExecutor THEN "shutdown" ELSE "l234"
    /\ UNCHANGED <<sanVars, playlist_urls, ctrl_c, idx, sub, created, existing_files, completed,
                   results, jobVars>>

\* line 207, ThreadPoolExecutor.__exit__: shutdown(wait=True) returns once the
\* worker threads have run every submitted job
Shutdown ==
    /\ mpc = "shutdown"
    /\ \A j \in Submitted : jpc[j] = "done"
    /\ mpc' = "l234"
    /\ UNCHANGED <<sanVars, playlist_urls, ctrl_c, idx, sub, created, existing_files,
                   console_lock, completed, interrupted, results, jobVars>>

\* lines 233-235
Exit ==
    /\ mpc = "l234"
    /\ mpc' = "exited"
    /\ UNCHANGED <<sanVars, playlist_urls, ctrl_c, idx, sub, created, existing_files,
                   console_lock, completed, interrupted, results, jobVars>>

Next ==
    \/ Resolve
    \/ MakeDir
    \/ Scan
    \/ PreCheck
    \/ MainLock
    \/ MainSkip
    \/ Collect
    \/ CollectEnd
    \/ Completed
    \/ Finish
    \/ Interrupt
    \/ Shutdown
    \/ Exit
    \/ \E j \in Jobs : Start(j)
    \/ \E j \in Jobs : Check(j)
    \/ \E j \in Jobs : JobLock(j)
    \/ \E j \in Jobs : SkipPrint(j)
    \/ \E j \in Jobs : DownloadPrint(j)
    \/ \E j \in Jobs : BackendReturn(j)
    \/ \E j \in Jobs : FinishedPrint(j)
    \/ \E j \in Jobs : Insert(j)
    \/ \E j \in Jobs : ErrorPrint(j)
    \/ \E j \in Jobs : Sleep(j)
    \/ \E j \in Jobs : SkipVideoPrint(j)

Spec == Init /\ [][Next]_vars

(***************************************************************************)
(* The run in which the user never presses Ctrl-C: the steps of main and   *)
(* of the worker threads, without the KeyboardInterrupt handler.  The      *)
(* operating system schedules every runnable thread, and ydl.download and  *)
(* time.sleep(10) return: a step that can be taken is eventually taken.    *)
(***************************************************************************)
NoInterruptNext ==
    \/ Resolve
    \/ MakeDir
    \/ Scan
    \/ PreCheck
    \/ MainLock
    \/ MainSkip
    \/ Collect
    \/ CollectEnd
    \/ Completed
    \/ Finish
    \/ \E j \in Jobs : Start(j)
    \/ \E j \in Jobs : Check(j)
    \/ \E j \in Jobs : JobLock(j)
    \/ \E j \in Jobs : SkipPrint(j)
    \/ \E j \in Jobs : DownloadPrint(j)
    \/ \E j \in Jobs : BackendReturn(j)
    \/ \E j \in Jobs : FinishedPrint(j)
    \/ \E j \in Jobs : Insert(j)
    \/ \E j \in Jobs : ErrorPrint(j)
    \/ \E j \in Jobs : Sleep(j)
    \/ \E j \in Jobs : SkipVideoPrint(j)

LiveSpec == Init /\ [][NoInterruptNext]_vars /\ WF_vars(NoInterruptNext)

(***************************************************************************)
(* The sanitizer on its own: sanitize_folder_name applied to a name and    *)
(* then to its own result.                                                 *)
(***************************************************************************)
mainVars == <<playlist_urls, ctrl_c, idx, mpc, sub, created, existing_files,
              console_lock, completed, interrupted, results>>

\* the reserved characters, a character that is not reserved, and the
\* replacement character
SanAlphabet == {"\\", "/", ":", "\"", "*", "?", "<", ">", "|", "a", "_"}

\* the names of at most MaxLen characters
Names == UNION {[1..n -> SanAlphabet] : n \in 0..MaxLen}

SanInit ==
    /\ san_in \in Names
    /\ san_out = <<>>
    /\ san_twice = <<>>
    /\ san_pc = "start"
    /\ playlist_urls = <<>>
    /\ ctrl_c = FALSE
    /\ idx = 1
    /\ mpc = "off"
    /\ sub = 1
    /\ created = {}
    /\ existing_files = {}
    /\ console_lock = {}
    /\ futures = <<>>
    /\ jpc = <<>>
    /\ exc = <<>>
    /\ outcome = <<>>
    /\ completed = 0
    /\ observed = {}
    /\ interrupted = FALSE
    /\ results = <<>>
    /\ called = {}
    /\ fetchOk = {}
    /\ inserted = {}
    /\ slept = {}
    /\ advancedFor = <<>>
    /\ lateStart = {}
    /\ checked = {}
    /\ printed = <<>>

\* lines 45-46, applied to the name
SanitizeOnce ==
    /\ san_pc = "start"
    /\ san_out' = sanitize_folder_name(san_in)
    /\ san_pc' = "once"
    /\ UNCHANGED <<san_in, san_twice, mainVars, jobVars>>

\* lines 45-46, applied to the result of the first application
SanitizeTwice ==
    /\ san_pc = "once"
    /\ san_twice' = sanitize_folder_name(san_out)
    /\ san_pc' = "twice"
    /\ UNCHANGED <<san_in, san_out, mainVars, jobVars>>

SanNext ==
    \/ SanitizeOnce
    \/ SanitizeTwice

SanSpec == SanInit /\ [][SanNext]_vars

(***************************************************************************)
(* Properties.                                                             *)
(***************************************************************************)
\* the index as line 192 built it for the current collection
Scanned == ScanDir(info.files)

\* C1: with a pool of max_workers = 4 workers and more pending items than
\* workers, at most 4 jobs are inside the backend download call at any time.
ConcurrencyBound == Cardinality(InFlight) <= max_workers

\* the pool is saturated: 4 downloads in flight while another job is queued
ConcurrencyBoundWitness ==
    /\ Cardinality(InFlight) = max_workers
    /\ \E j \in Jobs : jpc[j] = "queued"

\* C2: an item whose filename is in the index built from the directory is
\* never submitted to the pool, no backend call is made for it, and once the
\* submission loop has passed it, it has been reported as skipped by main.
DedupPreCheck ==
    \A i \in Jobs :
        filename(entries[i]) \in Scanned =>
            /\ jpc[i] = "unsubmitted"
            /\ i \notin Submitted
            /\ i \notin called
            /\ outcome[i] \in {"none", "SkippedDuplicate"}
            /\ sub > i => (outcome[i] = "SkippedDuplicate" /\ advancedFor[i] = 1)

\* a collection is complete in which an item present in the directory was skipped
DedupPreCheckWitness ==
    /\ mpc = "l222"
    /\ \E i \in Jobs : /\ filename(entries[i]) \in Scanned
                       /\ outcome[i] = "SkippedDuplicate"
                       /\ i \notin called

\* the output filenames of the items of the current collection
Filenames(S) == {filename(entries[j]) : j \in S}

UniqueTitles ==
    \A i, j \in Jobs : i # j => video_title(entries[i]) # video_title(entries[j])

UniqueFilenames ==
    \A i, j \in Jobs : i # j => filename(entries[i]) # filename(entries[j])

\* every item has a source reference on which the backend succeeds
AlwaysSucceeds ==
    \A j \in Jobs : "url" \in DOMAIN entries[j] /\ Backend(entries[j].url).ok

\* one successful download per item, N files, N advances
ExactlyN ==
    /\ called = Jobs
    /\ fetchOk = Jobs
    /\ Cardinality(Filenames(fetchOk)) = Len(entries)
    /\ existing_files = Scanned \cup Filenames(Jobs)
    /\ completed = Len(entries)

\* C3 as stated: N items with unique titles and an always succeeding backend
\* give exactly N files and N advances of the progress counter.
AtMostOnceUniqueTitles ==
    (mpc = "l222" /\ UniqueTitles /\ AlwaysSucceeds) => ExactlyN

\* C3 (amended): N items whose output filenames are pairwise distinct and not
\* yet in the destination directory, with an always succeeding backend, give
\* exactly N files (one successful download per item) and N advances.
AtMostOnce ==
    (/\ mpc = "l222"
     /\ UniqueFilenames
     /\ Filenames(Jobs) \cap Scanned = {}
     /\ AlwaysSucceeds) => ExactlyN

\* such a collection, larger than the pool, has been completed
AtMostOnceWitness ==
    /\ mpc = "l222"
    /\ Len(entries) > max_workers
    /\ UniqueFilenames
    /\ Filenames(Jobs) \cap Scanned = {}
    /\ AlwaysSucceeds
    /\ ExactlyN

RECURSIVE SumUpTo(_, _)
\* f[1] + ... + f[n]
SumUpTo(f, n) == IF n = 0 THEN 0 ELSE f[n] + SumUpTo(f, n - 1)

\* C4: every item advances the progress counter at most once, only after it
\* has been skipped by main or its job has completed, whatever its outcome;
\* when the collection is reported complete every item has advanced it once
\* and the counter equals the number of items.
ProgressOnce ==
    /\ \A i \in Jobs :
          /\ advancedFor[i] <= 1
          /\ advancedFor[i] = 1 =>
                /\ outcome[i] # "none"
                /\ i \in Submitted => (jpc[i] = "done" /\ i \in observed)
    /\ completed = SumUpTo(advancedFor, Len(advancedFor))
    /\ mpc = "l222" =>
          /\ \A i \in Jobs : advancedFor[i] = 1
          /\ completed = Len(entries)

\* a collection is complete whose items were skipped, failed transiently and
\* failed permanently
ProgressOnceWitness ==
    /\ mpc = "l222"
    /\ completed = Len(entries)
    /\ \E i \in Jobs : outcome[i] = "SkippedDuplicate"
    /\ \E i \in Jobs : outcome[i] = "TransientFailure"
    /\ \E i \in Jobs : outcome[i] = "PermanentFailure"

\* get_playlist_info, mkdir and glob succeed on the collection and it has items
Healthy(c) ==
    /\ c.resolve = "ok"
    /\ c.mkdir = "ok"
    /\ c.scan = "ok"
    /\ c.entries # <<>>

\* get_playlist_info, mkdir or glob raises on the collection
Failing(c) == c.resolve = "error" \/ c.mkdir = "error" \/ c.scan = "error"

\* C5: an error in one collection is caught at the collection boundary; when
\* the batch ends every collection has been attempted, the failing ones are
\* recorded as failed and every healthy one has been completed with one
\* outcome per item, also the ones after a failing collection.
FailureIsolation ==
    /\ Len(results) = (IF mpc \in {"l228", "finished"} THEN Len(playlist_urls) ELSE idx - 1)
    /\ \A k \in 1..Len(results) :
          /\ Failing(playlist_urls[k]) <=> results[k].status = "failed"
          /\ Healthy(playlist_urls[k]) =>
                /\ results[k].status = "completed"
                /\ results[k].completed = Len(playlist_urls[k].entries)
                /\ \A i \in 1..Len(playlist_urls[k].entries) :
                      results[k].outcomes[i] # "none"

\* the batch has ended; the first collection failed, the second was completed
FailureIsolationWitness ==
    /\ mpc = "finished"
    /\ Len(playlist_urls) = 2
    /\ Failing(playlist_urls[1])
    /\ results[1].status = "failed"
    /\ results[2].status = "completed"
    /\ results[2].completed = Len(playlist_urls[2].entries)

\* the message contains the phrase, compared without regard to letter case
ContainsAnyCase(msg, phrase) ==
    \E off \in 0..(Len(msg) - Len(phrase)) :
        \A k \in 1..Len(phrase) : LowerChar(msg[off + k]) = LowerChar(phrase[k])

HasTransientPhrase(msg) ==
    ContainsAnyCase(msg, TryAgainLater) \/ ContainsAnyCase(msg, NotAvailable)

\* C6: a job whose backend error contains "try again later" in any letter
\* case ends as a transient failure and has slept before it returned; a job
\* whose error contains "disk full" and no transient phrase ends as a
\* permanent failure and has not slept.
TransientClassification ==
    \A j \in Jobs :
        (jpc[j] = "done" /\ j \in called /\ j \notin fetchOk) =>
            /\ ContainsAnyCase(exc[j], TryAgainLater) =>
                  (outcome[j] = "TransientFailure" /\ j \in slept)
            /\ (ContainsAnyCase(exc[j], MsgFull) /\ ~HasTransientPhrase(exc[j])) =>
                  (outcome[j] = "PermanentFailure" /\ j \notin slept)

\* both cases have happened: a mixed-case "Try Again Later" and a "disk full"
TransientClassificationWitness ==
    /\ \E j \in Jobs : /\ jpc[j] = "done"
                       /\ exc[j] = MsgLater
                       /\ exc[j] # Lower(exc[j])
                       /\ outcome[j] = "TransientFailure"
                       /\ j \in slept
    /\ \E j \in Jobs : /\ jpc[j] = "done"
                       /\ exc[j] = MsgFull
                       /\ outcome[j] = "PermanentFailure"
                       /\ j \notin slept

\* C7: after the interrupt the outstanding jobs are abandoned: no job that was
\* still queued at the interrupt is started and enters the backend download.
CancellationAbandons == lateStart \cap called = {}

\* the threads positioned at a read or write of existing_files
\* (lines 102 and 130 in a job, line 212 in main)
Accessors ==
    {j \in Jobs : jpc[j] \in {"l102", "l130"}}
        \cup (IF mpc = "l212" THEN {MainThread} ELSE {})

\* C8: reads and writes of the index are mutually exclusive: in no state are
\* two threads at a read or write of the index at the same time.
IndexAccessExclusive == Cardinality(Accessors) <= 1

\* C9: the index is the scan of the directory plus the filenames of the jobs
\* whose backend download returned successfully and that executed the insert;
\* a job that ended as skipped, transient or permanent failure has not
\* inserted anything.
IndexOnlyBySuccess ==
    Jobs # {} =>
        /\ existing_files = Scanned \cup Filenames(inserted)
        /\ inserted \subseteq fetchOk
        /\ \A j \in Jobs :
              outcome[j] \in {"SkippedDuplicate", "TransientFailure", "PermanentFailure"}
                  => j \notin inserted

\* a collection is complete in which one job failed after its backend call,
\* leaving its filename out of the index, and another succeeded and inserted
IndexOnlyBySuccessWitness ==
    /\ mpc = "l222"
    /\ \E j \in Jobs : /\ outcome[j] = "PermanentFailure"
                       /\ j \in called
                       /\ filename(entries[j]) \notin existing_files
    /\ \E j \in Jobs : /\ outcome[j] = "Success"
                       /\ filename(entries[j]) \in existing_files \ Scanned

\* the item has no source reference: the key is missing or the value is empty
NoSourceRef(e) == "url" \notin DOMAIN e \/ e.url = ""

\* C10: for an item without source reference whose filename is not in the
\* index the backend download is never invoked, and its job ends as a
\* permanent failure.
MissingRefNoCall ==
    \A j \in Jobs :
        (NoSourceRef(entries[j]) /\ filename(entries[j]) \notin Scanned) =>
            /\ j \notin called
            /\ jpc[j] = "done" => outcome[j] = "PermanentFailure"

\* the outcome values a job or the pre-check of main can produce
OutcomeValues == {"Success", "SkippedDuplicate", "TransientFailure", "PermanentFailure"}

\* C11: an exception raised inside the job (by the backend call or by the
\* lookup of the url) is caught: the job returns with a failure outcome and
\* never ends by raising; when the collection is complete every item has an
\* outcome and every job whose download returned ended as a success, whatever
\* happened to the other jobs.
NoEscape ==
    /\ \A j \in Jobs :
          /\ outcome[j] \in OutcomeValues \cup {"none"}
          /\ (jpc[j] = "done" /\ exc[j] # <<>>) =>
                outcome[j] \in {"TransientFailure", "PermanentFailure"}
          /\ (j \in called /\ j \notin fetchOk /\ jpc[j] # "l127") =>
                exc[j] = Backend(entries[j].url).msg
    /\ mpc = "l222" =>
          \A k \in Jobs : /\ outcome[k] \in OutcomeValues
                          /\ k \in fetchOk => outcome[k] = "Success"

\* a collection is complete in which the backend raised for one job and
\* another job succeeded
NoEscapeWitness ==
    /\ mpc = "l222"
    /\ \E j \in Jobs : /\ j \in called
                       /\ exc[j] # <<>>
                       /\ outcome[j] = "PermanentFailure"
    /\ \E k \in Jobs : outcome[k] = "Success"

\* the characters the file system reserves
ReservedChars == {"\\", "/", ":", "\"", "*", "?", "<", ">", "|"}

\* the positions of name at which a maximal run of reserved characters starts
RunStarts(name) ==
    {k \in 1..Len(name) :
        /\ name[k] \in ReservedChars
        /\ k = 1 \/ name[k - 1] \notin ReservedChars}

\* the positions of name that hold a character that is not reserved
Kept(name) == {k \in 1..Len(name) : name[k] \notin ReservedChars}

\* C12: the result of sanitize_folder_name contains none of the reserved
\* characters \ / : " * ? < > | and has one character per kept character
\* and one per maximal run of reserved characters of the name.
NoReservedLeft ==
    san_pc \in {"once", "twice"} =>
        /\ \A k \in 1..Len(san_out) : san_out[k] \notin ReservedChars
        /\ Len(san_out) = Cardinality(Kept(san_in)) + Cardinality(RunStarts(san_in))

\* a name with a run of two reserved characters has been sanitized to a_
NoReservedLeftWitness ==
    /\ san_pc = "once"
    /\ san_in = <<"a", "|", "/">>
    /\ san_out = <<"a", "_">>

\* C13: applying sanitize_folder_name to its own result gives that result.
SanitizeIdempotent == san_pc = "twice" => san_twice = san_out

\* a name that the sanitizer changes has been sanitized twice
SanitizeIdempotentWitness ==
    /\ san_pc = "twice"
    /\ san_in = <<"_", "/", ":">>
    /\ san_out = <<"_", "_">>
    /\ san_twice = san_out

\* C14: collections are processed one after the other: when main is outside
\* the executor block (resolving, creating the directory, scanning, reporting
\* the collection, or finishing) no job is queued or running, and a
\* collection is resolved only after all earlier ones have ended and their
\* jobs are gone.
Sequential ==
    /\ mpc \in {"l179", "l183", "l192", "l222", "l228", "finished"} =>
          \A j \in Jobs : jpc[j] \in {"unsubmitted", "done"}
    /\ mpc \in {"l179", "l183", "l192"} =>
          (Jobs = {} /\ Len(results) = idx - 1)

\* a job of the second collection is downloading after the first collection,
\* which had several items, was completed
SequentialWitness ==
    /\ idx = 2
    /\ InFlight # {}
    /\ results[1].status = "completed"
    /\ results[1].total >= 2

\* C15: inside a job the duplicate check of line 102 precedes the backend
\* call, and the filename is inserted only after the backend call has
\* returned successfully.
CausalOrder ==
    /\ called \subseteq checked
    /\ inserted \subseteq fetchOk
    /\ \A j \in Jobs :
          /\ jpc[j] \in {"unsubmitted", "queued", "l102"} => j \notin called
          /\ jpc[j] = "l127" => (j \notin fetchOk /\ j \notin inserted)
    /\ Jobs # {} => existing_files \ Scanned \subseteq Filenames(fetchOk)

\* one job has checked, downloaded and inserted while another is downloading
CausalOrderWitness ==
    /\ \E j \in Jobs : /\ j \in checked
                       /\ j \in fetchOk
                       /\ j \in inserted
                       /\ filename(entries[j]) \in existing_files
    /\ \E k \in InFlight : filename(entries[k]) \notin existing_files

\* two different items with the same output filename are both inside the
\* backend download call
Race(i, j) ==
    /\ i # j
    /\ i \in InFlight
    /\ j \in InFlight
    /\ filename(entries[i]) = filename(entries[j])

\* C16: when two items with the same output filename are inside the backend
\* call at the same time, the filename was not in the index at scan time and
\* both items went through the pre-check of main and the check of line 102:
\* the two checks do not exclude the race.
RaceThroughChecks ==
    \A i, j \in Jobs :
        Race(i, j) =>
            /\ filename(entries[i]) \notin Scanned
            /\ {i, j} \subseteq Submitted
            /\ {i, j} \subseteq checked

\* the race: two items with different titles download to the same path
RaceWitness ==
    \E i, j \in Jobs :
        /\ Race(i, j)
        /\ video_title(entries[i]) # video_title(entries[j])
        /\ filename(entries[i]) \notin existing_files

\* the pcs of a job inside a  with console_lock:  block
HoldPcs == {"l104", "l123", "l129", "l135", "l142"}

\* C17: a job in its cooldown sleep does not hold console_lock; the lock is
\* held only by a thread inside a with console_lock block.
CooldownLockFree ==
    /\ \A j \in Jobs : jpc[j] = "l140" => j \notin console_lock
    /\ \A t \in console_lock :
          IF t = MainThread THEN mpc = "l214" ELSE jpc[t] \in HoldPcs

\* during the cooldown of one job another job holds the lock and prints
CooldownLockFreeWitness ==
    \E j, k \in Jobs :
        /\ j # k
        /\ jpc[j] = "l140"
        /\ console_lock = {k}

\* C18: for a collection without items the destination directory is not
\* created.
EmptyNoDirectory ==
    \A k \in 1..Len(results) :
        results[k].status = "empty" =>
            sanitize_folder_name(playlist_urls[k].title) \notin created

\* C19 as stated: every item that has an outcome has produced exactly one
\* status line.
OneStatusLine ==
    \A j \in Jobs : outcome[j] \in OutcomeValues => printed[j] = 1

\* the number of console.print calls for an outcome
LinesOf(o) ==
    CASE o = "SkippedDuplicate" -> 1
      [] o = "Success" -> 2
      [] o = "PermanentFailure" -> 2
      [] o = "TransientFailure" -> 3

\* C19 (amended): every item that has an outcome has produced at least one
\* status line: exactly 1 for a skipped duplicate, 2 for a success and for a
\* permanent failure, 3 for a transient failure.
StatusLines ==
    \A j \in Jobs :
        outcome[j] \in OutcomeValues => printed[j] = LinesOf(outcome[j])

\* a collection is complete with a skipped item (1 line), a transient failure
\* (3 lines) and a permanent failure (2 lines)
StatusLinesWitness ==
    /\ mpc = "l222"
    /\ \E j \in Jobs : outcome[j] = "SkippedDuplicate" /\ printed[j] = 1
    /\ \E j \in Jobs : outcome[j] = "TransientFailure" /\ printed[j] = 3
    /\ \E j \in Jobs : outcome[j] = "PermanentFailure" /\ printed[j] = 2

\* the final state of main: every collection of the list has been handled, no
\* job is left, and every item of every completed collection has an outcome
AllFinished ==
    /\ mpc = "finished"
    /\ Len(results) = Len(playlist_urls)
    /\ Running = {}
    /\ \A j \in Jobs : jpc[j] = "done"
    /\ console_lock = {}
    /\ \A k \in 1..Len(results) :
          results[k].status = "completed" =>
              /\ results[k].completed = results[k].total
              /\ \A j \in DOMAIN results[k].outcomes :
                    results[k].outcomes[j] \in OutcomeValues

\* C20: when no interrupt occurs and every backend call returns, main
\* eventually reaches the final "All downloads finished" state, and there
\* every submitted job has completed and no worker is running a job.
Terminates == <>AllFinished

\* main has finished a run in which an item of one collection went through
\* the cooldown and an item of another one was downloaded
TerminatesWitness ==
    /\ AllFinished
    /\ \E k \in 1..Len(results) :
          /\ results[k].status = "completed"
          /\ \E j \in DOMAIN results[k].outcomes :
                results[k].outcomes[j] = "TransientFailure"
    /\ \E k \in 1..Len(results) :
          /\ results[k].status = "completed"
          /\ results[k].files # {}

TypeOK ==
    /\ mpc \in {"l179", "l183", "l192", "l212", "l213", "l214", "l219", "l222",
                "l228", "finished", "shutdown", "l234", "exited"}
    /\ Cardinality(console_lock) <= 1

====
